---- MODULE Spec2Model ----
(***************************************************************************)
(* SIMPLEFEM (src/simplefem.ipynb): a piecewise-linear finite-element      *)
(* solver on the unit square.  The notebook keeps its state in module      *)
(* globals (coord, elem, emax, A, perm, inv_perm) that the functions       *)
(* initial, refine, assmblstiff, reorder_matrix, rhs and solve read and    *)
(* write.  Each function is one action here.                               *)
(*                                                                         *)
(* Numbers.  Every float the program computes on the meshes it builds is   *)
(* a dyadic rational of small magnitude, so float64 arithmetic is exact    *)
(* on them; a number is modelled as a reduced fraction <<num, den>> with   *)
(* den > 0.  Indices are 0-based as in the source; a Python list l is a    *)
(* TLA+ sequence s with l[i] = s[i+1].                                     *)
(***************************************************************************)
EXTENDS Integers, Sequences, FiniteSets, TLC

\* ------------------------------------------------------------------ bounds
\* refine is only called while the mesh has fewer than MaxLevel refinements
MaxLevel == 2
\* reorder_matrix is called at most MaxReorder times on one assembled matrix
MaxReorder == 2

\* ------------------------------------------------------------ exact numbers
Abs(n) == IF n < 0 THEN -n ELSE n

RECURSIVE GCD(_, _)
GCD(a, b) == IF b = 0 THEN a ELSE GCD(b, a % b)

\* the reduced fraction n/d (d # 0)
Rat(n, d) ==
  LET g == GCD(Abs(n), Abs(d))
      s == IF d < 0 THEN -1 ELSE 1
  IN  << (s * n) \div g, (s * d) \div g >>

RInt(n) == << n, 1 >>
RAdd(p, q) == Rat(p[1] * q[2] + q[1] * p[2], p[2] * q[2])
RSub(p, q) == Rat(p[1] * q[2] - q[1] * p[2], p[2] * q[2])
RMul(p, q) == Rat(p[1] * q[1], p[2] * q[2])
\* p / q for q # 0
RDiv(p, q) == Rat(p[1] * q[2], p[2] * q[1])
RIsZero(p) == p[1] = 0
RPos(p) == p[1] > 0

\* l[i] of a Python list l
At(s, i) == s[i + 1]

\* the sequence s itself, as a sequence whose elements are computed once
\* (a function written [i \in 1 .. n |-> e] computes e at every use)
Stored(s) == s \o << >>

\* ---------------------------------------------------------------- state
\* coord, elem, emax, A, perm, inv_perm: the globals of the notebook; bound:
\* the names among A, perm, inv_perm that hold a value (reading another one
\* is a NameError).
\* call: the function called last ("none" before the first call); outcome:
\* how that call ended ("ok" or the exception it raised); ret: the value it
\* returned (the vector of rhs or solve, << >> for None or after an
\* exception); field: the value c of the constant field f the last rhs call
\* was given, kept while solve works on its vector (0 otherwise).
\* History: branch, the branch the last reorder_matrix took on the current
\* matrix ("none", "skipped", "stored"); nreorder, the calls of
\* reorder_matrix on the current matrix; total, the sum of the arguments of
\* the refine calls since initial(); A0, the value the most recent call of
\* assmblstiff left in A
VARIABLES coord, elem, emax, A, perm, inv_perm, bound, call, outcome, ret,
          field, branch, nreorder, total, A0

vars == << coord, elem, emax, A, perm, inv_perm, bound, call, outcome, ret,
           field, branch, nreorder, total, A0 >>

\* -------------------------------------------------------------- the mesh
\* initial(): the 9 nodes of the unit square
InitialCoord ==
  << << RInt(0), RInt(0) >>, << Rat(1, 2), RInt(0) >>, << RInt(1), RInt(0) >>,
     << RInt(0), Rat(1, 2) >>, << Rat(1, 2), Rat(1, 2) >>, << RInt(1), Rat(1, 2) >>,
     << RInt(0), RInt(1) >>, << Rat(1, 2), RInt(1) >>, << RInt(1), RInt(1) >> >>

\* initial(): the 8 elements
InitialElem ==
  << <<0, 4, 3>>, <<4, 0, 1>>, <<1, 5, 4>>, <<5, 1, 2>>,
     <<3, 7, 6>>, <<7, 3, 4>>, <<4, 8, 7>>, <<8, 4, 5>> >>

\* initial(): one level, elements 0..7
InitialEmax == << <<0, 7>> >>

\* 0.5 * (np.array(p) + np.array(q))
Midpoint(p, q) ==
  << RMul(Rat(1, 2), RAdd(p[1], q[1])), RMul(Rat(1, 2), RAdd(p[2], q[2])) >>

\* for i, node in enumerate(coord): the first i in lo .. hi with node == n,
\* or -1 (the range is halved, the lower half is searched first)
RECURSIVE FindNode(_, _, _, _)
FindNode(c, n, lo, hi) ==
  IF lo > hi THEN -1
  ELSE IF lo = hi
       THEN IF At(c, lo)[1] = n[1] /\ At(c, lo)[2] = n[2] THEN lo ELSE -1
  ELSE LET mid == (lo + hi) \div 2
           i   == FindNode(c, n, lo, mid)
       IN  IF i # -1 THEN i ELSE FindNode(c, n, mid + 1, hi)

\* AddNodeIfAbsent without the search: every midpoint becomes a new node
AddNodeAlways(st, n) ==
  [coord |-> Append(st.coord, n), nodes_ind |-> st.nodes_ind + 1,
   i |-> st.nodes_ind + 1]

\* one of the three for/else searches of elemrefine: reuse the node at n or
\* append n; nodes_ind is the running index of the last node
AddNodeIfAbsent(st, n) ==
  LET i == FindNode(st.coord, n, 0, Len(st.coord) - 1)
  IN  IF i # -1
      THEN [coord |-> st.coord, nodes_ind |-> st.nodes_ind, i |-> i]
      ELSE [coord |-> Append(st.coord, n), nodes_ind |-> st.nodes_ind + 1,
            i |-> st.nodes_ind + 1]

\* elemrefine with the central child listed as [i3, i2, i1]
elemrefineFlipped(m, ie) ==
  LET e  == At(m.elem, ie)
      s0 == [coord |-> m.coord, nodes_ind |-> Len(m.coord) - 1, i |-> -1]
      s1 == AddNodeIfAbsent(s0, Midpoint(At(m.coord, e[1]), At(m.coord, e[2])))
      s2 == AddNodeIfAbsent(s1, Midpoint(At(m.coord, e[2]), At(m.coord, e[3])))
      s3 == AddNodeIfAbsent(s2, Midpoint(At(m.coord, e[1]), At(m.coord, e[3])))
  IN  [m EXCEPT !.coord = s3.coord,
                !.elem = m.elem \o << << e[1], s1.i, s3.i >>, << s1.i, e[2], s2.i >>,
                                     << s3.i, s2.i, e[3] >>, << s3.i, s2.i, s1.i >> >>]

\* elemrefine(ie) on the mesh m = [coord, elem, emax]
elemrefine(m, ie) ==
  LET e  == At(m.elem, ie)
      n1 == Midpoint(At(m.coord, e[1]), At(m.coord, e[2]))
      n2 == Midpoint(At(m.coord, e[2]), At(m.coord, e[3]))
      n3 == Midpoint(At(m.coord, e[1]), At(m.coord, e[3]))
      s0 == [coord |-> m.coord, nodes_ind |-> Len(m.coord) - 1, i |-> -1]
      s1 == AddNodeIfAbsent(s0, n1)
      s2 == AddNodeIfAbsent(s1, n2)
      s3 == AddNodeIfAbsent(s2, n3)
      i1 == s1.i
      i2 == s2.i
      i3 == s3.i
      e1 == << e[1], i1, i3 >>
      e2 == << i1, e[2], i2 >>
      e3 == << i3, i2, e[3] >>
      e4 == << i2, i3, i1 >>
  IN  [m EXCEPT !.coord = s3.coord, !.elem = m.elem \o << e1, e2, e3, e4 >>]

\* for ie in range(lo, hi + 1): elemrefine(ie); icnt += 4.  The elements are
\* taken in increasing order.  The range is halved, and the running state st
\* is read on entry (icnt is never negative), only so that st is computed
\* before the descent and the evaluation stays shallow; the other loops
\* over elements and nodes below are written the same way
RECURSIVE RefineElems(_, _, _)
RefineElems(st, lo, hi) ==
  IF st.icnt < 0 \/ lo > hi THEN st
  ELSE IF lo = hi THEN [m |-> elemrefine(st.m, lo), icnt |-> st.icnt + 4]
  ELSE LET mid == (lo + hi) \div 2
       IN  RefineElems(RefineElems(st, lo, mid), mid + 1, hi)

\* RefineLevel with the last element counted from emax[l-1][1] instead of
\* emax[l][0]
RefineLevelShort(m, l) ==
  LET prev  == At(m.emax, l - 1)
      start == prev[2] + 1
      m1    == [m EXCEPT !.emax = Append(m.emax, << start, 0 >>)]
      r     == RefineElems([m |-> m1, icnt |-> 0], prev[1], prev[2])
  IN  [r.m EXCEPT !.emax[l + 1] = << start, prev[2] + r.icnt - 1 >>]

\* one pass of the loop "for l in range(lmn, lmx)" of refine
RefineLevel(m, l) ==
  LET prev  == At(m.emax, l - 1)
      start == prev[2] + 1
      m1    == [m EXCEPT !.emax = Append(m.emax, << start, 0 >>)]
      r     == RefineElems([m |-> m1, icnt |-> 0], prev[1], prev[2])
  IN  [r.m EXCEPT !.emax[l + 1] = << start, start + r.icnt - 1 >>]

RECURSIVE RefineLoop(_, _, _)
RefineLoop(m, l, lmx) ==
  IF l >= lmx THEN m ELSE RefineLoop(RefineLevel(m, l), l + 1, lmx)

\* refine with lmn = 1: the levels are counted from the initial mesh
RefineMeshRestart(m, lvl) == RefineLoop(m, 1, 1 + lvl)

\* refine(lvl) on the mesh m
RefineMesh(m, lvl) ==
  LET lmn == Len(m.emax)
      lmx == lmn + lvl
  IN  RefineLoop(m, lmn, lmx)

Mesh == [coord |-> coord, elem |-> elem, emax |-> emax]

\* ------------------------------------------------------- stiffness matrix
\* area(ie): 0.5 * (a[0]*b[1] - a[1]*b[0]) with a = p1 - p0, b = p2 - p0
area(m, ie) ==
  LET e  == At(m.elem, ie)
      p0 == At(m.coord, e[1])
      p1 == At(m.coord, e[2])
      p2 == At(m.coord, e[3])
      a0 == RSub(p1[1], p0[1])
      a1 == RSub(p1[2], p0[2])
      b0 == RSub(p2[1], p0[1])
      b1 == RSub(p2[2], p0[2])
  IN  RMul(Rat(1, 2), RSub(RMul(a0, b1), RMul(a1, b0)))

\* the denominators d1, d2, d3 of elstiff(ie)
Denominators(m, ie) ==
  LET e  == At(m.elem, ie)
      x1 == At(m.coord, e[1])[1]
      y1 == At(m.coord, e[1])[2]
      x2 == At(m.coord, e[2])[1]
      y2 == At(m.coord, e[2])[2]
      x3 == At(m.coord, e[3])[1]
      y3 == At(m.coord, e[3])[2]
  IN  << RSub(RMul(RSub(x1, x2), RSub(y3, y2)), RMul(RSub(x3, x2), RSub(y1, y2))),
         RSub(RMul(RSub(x2, x3), RSub(y1, y3)), RMul(RSub(x1, x3), RSub(y2, y3))),
         RSub(RMul(RSub(x3, x1), RSub(y2, y1)), RMul(RSub(x2, x1), RSub(y3, y1))) >>

\* elstiff(ie) divides Python floats by d1, d2, d3: a zero one raises
\* ZeroDivisionError
ElstiffRaises(m, ie) ==
  LET d == Denominators(m, ie)
  IN  RIsZero(d[1]) \/ RIsZero(d[2]) \/ RIsZero(d[3])

\* elstiff without the copies a[0,1], a[0,2], a[1,2]: the upper triangle
\* stays as np.zeros left it
elstiffLower(m, ie) ==
  LET e  == At(m.elem, ie)
      p1 == At(m.coord, e[1])
      p2 == At(m.coord, e[2])
      p3 == At(m.coord, e[3])
      d  == Denominators(m, ie)
      dxb == << RDiv(RSub(p3[2], p2[2]), d[1]), RDiv(RSub(p1[2], p3[2]), d[2]),
                RDiv(RSub(p2[2], p1[2]), d[3]) >>
      dyb == << RDiv(RSub(p3[1], p2[1]), d[1]), RDiv(RSub(p1[1], p3[1]), d[2]),
                RDiv(RSub(p2[1], p1[1]), d[3]) >>
      ar == area(m, ie)
  IN  Stored([k \in 1 .. 3 |-> Stored([l \in 1 .. 3 |->
        IF k >= l
        THEN RMul(ar, RAdd(RMul(dxb[k], dxb[l]), RMul(dyb[k], dyb[l])))
        ELSE RInt(0)])])

\* elstiff(ie): the 3x3 element matrix, ae[k][l] for k, l in 1..3
elstiff(m, ie) ==
  LET e  == At(m.elem, ie)
      x1 == At(m.coord, e[1])[1]
      y1 == At(m.coord, e[1])[2]
      x2 == At(m.coord, e[2])[1]
      y2 == At(m.coord, e[2])[2]
      x3 == At(m.coord, e[3])[1]
      y3 == At(m.coord, e[3])[2]
      d  == Denominators(m, ie)
      dxb == << RDiv(RSub(y3, y2), d[1]), RDiv(RSub(y1, y3), d[2]),
                RDiv(RSub(y2, y1), d[3]) >>
      dyb == << RDiv(RSub(x3, x2), d[1]), RDiv(RSub(x1, x3), d[2]),
                RDiv(RSub(x2, x1), d[3]) >>
      ar == area(m, ie)
      \* the source fills the diagonal and the lower triangle and copies the
      \* lower triangle into the upper one
      lo(k, l) == RMul(ar, RAdd(RMul(dxb[k], dxb[l]), RMul(dyb[k], dyb[l])))
  IN  Stored([k \in 1 .. 3 |->
                Stored([l \in 1 .. 3 |-> IF k >= l THEN lo(k, l) ELSE lo(l, k)])])

\* sp.lil_matrix((n, n)): an n x n matrix of zeros; val[i+1][j+1] is A[i, j]
LilMatrix(n) ==
  [fmt |-> "lil", n |-> n,
   val |-> Stored([i \in 1 .. n |-> Stored([j \in 1 .. n |-> RInt(0)])])]

\* the double loop over k, l: A[e[k], e[l]] += ae[k, l]; kl counts 0..8
RECURSIVE Accumulate(_, _, _, _)
Accumulate(val, e, ae, kl) ==
  IF kl >= 9 THEN val
  ELSE LET k == kl \div 3
           l == kl % 3
           i == e[k + 1]
           j == e[l + 1]
       IN  Accumulate([val EXCEPT ![i + 1][j + 1] = RAdd(@, ae[k + 1][l + 1])],
                      e, ae, kl + 1)

\* the element loop of assmblstiff over the elements lo..hi in increasing
\* order (halved as in RefineElems); it ends at the first element whose
\* elstiff raises
RECURSIVE AssembleElems(_, _, _, _)
AssembleElems(m, st, lo, hi) ==
  IF st.raised \/ lo > hi THEN st
  ELSE IF lo = hi
       THEN IF ElstiffRaises(m, lo) THEN [st EXCEPT !.raised = TRUE]
            ELSE [st EXCEPT !.val = Accumulate(@, At(m.elem, lo), elstiff(m, lo), 0)]
  ELSE LET mid == (lo + hi) \div 2
       IN  AssembleElems(m, AssembleElems(m, st, lo, mid), mid + 1, hi)

\* (0.0 in node) or (1.0 in node)
OnBoundary(node) ==
  \/ node[1] = RInt(0) \/ node[2] = RInt(0)
  \/ node[1] = RInt(1) \/ node[2] = RInt(1)

\* the correction with A[ie,:] = 0 only: the columns keep their entries
BoundaryCorrectRows(m, val) ==
  LET n == Len(val)
      bd == {i \in 0 .. n - 1 : i < Len(m.coord) /\ OnBoundary(At(m.coord, i))}
  IN  Stored([i \in 1 .. n |-> Stored([j \in 1 .. n |->
        IF (i - 1) \in bd
        THEN (IF i = j THEN RInt(1) ELSE RInt(0))
        ELSE val[i][j]])])

\* for every boundary node ie: A[ie,:] = A[:,ie] = 0; A[ie,ie] = 1
BoundaryCorrect(m, val) ==
  LET n == Len(val)
      bd == {i \in 0 .. n - 1 : i < Len(m.coord) /\ OnBoundary(At(m.coord, i))}
  IN  Stored([i \in 1 .. n |-> Stored([j \in 1 .. n |->
        IF (i - 1) \in bd \/ (j - 1) \in bd
        THEN (IF i = j THEN RInt(1) ELSE RInt(0))
        ELSE val[i][j]])])

\* the matrix after the element loop of assmblstiff, before the correction
Accumulated(m) ==
  LET l == At(m.emax, Len(m.emax) - 1)
  IN  AssembleElems(m, [val |-> LilMatrix(Len(m.coord)).val, raised |-> FALSE],
                    l[1], l[2])

\* assmblstiff() on the mesh m: the global A it leaves and whether it raised
AssembleStiffness(m) ==
  LET acc == Accumulated(m)
      n == Len(m.coord)
  IN  IF acc.raised
      THEN [A |-> [fmt |-> "lil", n |-> n, val |-> acc.val], raised |-> TRUE]
      ELSE [A |-> [fmt |-> "csr", n |-> n, val |-> BoundaryCorrect(m, acc.val)],
            raised |-> FALSE]


\* ------------------------------------------------------------ reordering
\* the two orders np.argsort may give to nodes of equal degree
TieBreaks == {"ascending", "descending"}

\* _node_degrees of reverse_cuthill_mckee: the stored (nonzero) entries of
\* row i, plus one if the diagonal is stored
NodeDegree(val, i) ==
  Cardinality({j \in 1 .. Len(val) : ~RIsZero(val[i + 1][j])})
    + (IF RIsZero(val[i + 1][i + 1]) THEN 0 ELSE 1)

Reverse(s) == Stored([i \in 1 .. Len(s) |-> s[Len(s) + 1 - i]])

\* np.argsort(key): the indices 0..n-1 by increasing key; tie says in which
\* order indices of equal key come.  Index i goes to the place given by the
\* number of indices that sort before it
ArgsortTie(key, tie) ==
  LET n == Len(key)
      before(j, i) ==
        \/ key[j] < key[i]
        \/ key[j] = key[i] /\ (IF tie = "ascending" THEN j < i ELSE j > i)
      place == Stored([i \in 1 .. n |-> Cardinality({j \in 1 .. n : before(j, i)})])
  IN  Stored([k \in 1 .. n |-> (CHOOSE i \in 1 .. n : place[i] = k - 1) - 1])

\* the indices by decreasing key
ArgsortDescending(key) == Reverse(ArgsortTie(key, "ascending"))

\* np.argsort(perm) of reorder_matrix
Argsort(key) == ArgsortTie(key, "ascending")

\* the insertion sort of the search: node j goes behind the nodes of the
\* sorted list whose degree is not larger
RECURSIVE InsertByDegree(_, _, _)
InsertByDegree(sorted, j, deg) ==
  IF sorted = << >> THEN << j >>
  ELSE IF deg[j + 1] < deg[sorted[Len(sorted)] + 1]
       THEN Append(InsertByDegree(SubSeq(sorted, 1, Len(sorted) - 1), j, deg),
                   sorted[Len(sorted)])
       ELSE Append(sorted, j)

RECURSIVE SortByDegree(_, _, _)
SortByDegree(new, k, deg) ==
  IF k = 0 THEN << >>
  ELSE InsertByDegree(SortByDegree(new, k - 1, deg), new[k], deg)

\* the neighbours of node i not yet in order, in the order of the columns of
\* row i, then sorted by degree
NewNeighbours(val, deg, order, i) ==
  LET visited == {order[k] : k \in 1 .. Len(order)}
      cols == Stored([j \in 1 .. Len(val) |-> j - 1])
      unvisited(j) == ~RIsZero(val[i + 1][j + 1]) /\ j \notin visited
      new == SelectSeq(cols, unvisited)
  IN  SortByDegree(new, Len(new), deg)

\* for ii in range(lo, hi + 1): node order[ii] appends its unvisited
\* neighbours to order (halved as in RefineElems)
RECURSIVE VisitLevel(_, _, _, _, _)
VisitLevel(val, deg, order, lo, hi) ==
  IF Len(order) = Len(val) \/ lo > hi THEN order
  ELSE IF lo = hi THEN order \o NewNeighbours(val, deg, order, order[lo])
  ELSE LET mid == (lo + hi) \div 2
       IN  VisitLevel(val, deg, VisitLevel(val, deg, order, lo, mid), mid + 1, hi)

\* while level_start < level_end: the nodes order[level_start+1 .. level_end]
\* are one level of the breadth-first search
RECURSIVE BFS(_, _, _, _, _)
BFS(val, deg, order, level_start, level_end) ==
  IF level_start >= level_end THEN order
  ELSE LET next == VisitLevel(val, deg, order, level_start + 1, level_end)
       IN  BFS(val, deg, next, level_end, Len(next))

\* for zz in range(lo - 1, hi): a node of inds not yet in order seeds a
\* search; nothing is left to do once order holds every node
RECURSIVE CuthillMcKee(_, _, _, _, _, _)
CuthillMcKee(val, deg, inds, order, lo, hi) ==
  IF Len(order) = Len(val) \/ lo > hi THEN order
  ELSE IF lo = hi
       THEN IF \E k \in 1 .. Len(order) : order[k] = inds[lo] THEN order
            ELSE BFS(val, deg, Append(order, inds[lo]), Len(order), Len(order) + 1)
  ELSE LET mid == (lo + hi) \div 2
       IN  CuthillMcKee(val, deg, inds,
                        CuthillMcKee(val, deg, inds, order, lo, mid), mid + 1, hi)

\* sp.csgraph.reverse_cuthill_mckee(A, symmetric_mode=True); tie is the order
\* its np.argsort(degree) gives to nodes of equal degree
reverse_cuthill_mckee(M, tie) ==
  LET deg  == Stored([i \in 1 .. M.n |-> NodeDegree(M.val, i - 1)])
      inds == ArgsortTie(deg, tie)
  IN  Reverse(CuthillMcKee(M.val, deg, inds, << >>, 1, M.n))

\* A[p,:][:,p]
Permuted(M, p) ==
  [M EXCEPT !.n = Len(p),
            !.val = Stored([i \in 1 .. Len(p) |-> Stored([j \in 1 .. Len(p) |->
                       M.val[p[i] + 1][p[j] + 1]])])]

\* np.sum(A != B) == 0
SameEntries(M, N) == M.val = N.val

\* ------------------------------------------------------- right-hand side
\* the source fields rhs is called with: f(node) = c at every node; f() of
\* the notebook is c = -1
FieldValues == {-1, 1}

\* f[e] summed: the field is constant
FieldSum(c, e) == RInt(c + c + c)

\* b[e] += area(ie) * np.sum(f[e]) / 3 for the elements lo..hi in increasing
\* order (halved as in RefineElems); a fancy-indexed += writes old value +
\* increment once per index named in e
RECURSIVE LoadElems(_, _, _, _, _)
LoadElems(m, c, vec, lo, hi) ==
  IF Len(vec) = 0 \/ lo > hi THEN vec
  ELSE IF lo = hi
       THEN LET e == At(m.elem, lo)
                v == RDiv(RMul(area(m, lo), FieldSum(c, e)), RInt(3))
            IN  Stored([k \in 1 .. Len(vec) |->
                   IF (k - 1) \in {e[1], e[2], e[3]} THEN RAdd(vec[k], v)
                   ELSE vec[k]])
  ELSE LET mid == (lo + hi) \div 2
       IN  LoadElems(m, c, LoadElems(m, c, vec, lo, mid), mid + 1, hi)

\* the vector b of rhs before "return b[perm]"
LoadVector(m, c) ==
  LET n == Len(m.coord)
      l == At(m.emax, Len(m.emax) - 1)
      acc == LoadElems(m, c, Stored([k \in 1 .. n |-> RInt(0)]), l[1], l[2])
  IN  Stored([k \in 1 .. n |-> IF OnBoundary(m.coord[k]) THEN RInt(0) ELSE acc[k]])

\* v[p] of numpy: v[p[i]] for every i, IndexError when an index is out of range
IndexInRange(v, p) == \A i \in 1 .. Len(p) : p[i] < Len(v)
Take(v, p) == Stored([i \in 1 .. Len(p) |-> v[p[i] + 1]])

\* ------------------------------------------------------------------ solve
\* float nan
NaN == << 0, 0 >>
\* the component i of the solution of a coupled system: the value the
\* external solver computes for it, which the model leaves symbolic
Coupled(i) == << i, -1 >>

\* row i and column i of M hold nothing but the diagonal entry
Decoupled(M, i) ==
  \A j \in 1 .. M.n : j # i + 1 => RIsZero(M.val[i + 1][j]) /\ RIsZero(M.val[j][i + 1])

\* a row of zeros: M is exactly singular
Singular(M) == \E i \in 1 .. M.n : \A j \in 1 .. M.n : RIsZero(M.val[i][j])

\* spsolve(A, b) for len(b) = A.shape[0]: nan everywhere for a singular
\* matrix; the exact value b[i] / A[i,i] of a decoupled unknown
spsolve(M, rh) ==
  IF Singular(M) THEN Stored([i \in 1 .. M.n |-> NaN])
  ELSE Stored([i \in 1 .. M.n |->
          IF Decoupled(M, i - 1) THEN RDiv(rh[i], M.val[i][i]) ELSE Coupled(i - 1)])

\* a fresh interpreter in which the cells defining the functions and the
\* cell calling initial() have run
Init ==
  /\ coord = InitialCoord
  /\ elem = InitialElem
  /\ emax = InitialEmax
  /\ A = LilMatrix(0)
  /\ perm = << >>
  /\ inv_perm = << >>
  /\ bound = {}
  /\ call = "none"
  /\ outcome = "ok"
  /\ ret = << >>
  /\ field = 0
  /\ branch = "none"
  /\ nreorder = 0
  /\ total = 0
  /\ A0 = LilMatrix(0)

\* a call that returns None or raises leaves no vector with the caller
Returns(name, how) ==
  /\ call' = name
  /\ outcome' = how
  /\ ret' = << >>
  /\ field' = 0

Initial ==
  /\ coord' = InitialCoord
  /\ elem' = InitialElem
  /\ emax' = InitialEmax
  /\ total' = 0
  /\ Returns("initial", "ok")
  /\ UNCHANGED << A, perm, inv_perm, bound, branch, nreorder, A0 >>

Refine ==
  \E lvl \in 0 .. MaxLevel :
    /\ Len(emax) - 1 + lvl <= MaxLevel
    /\ \E m \in {RefineMesh(Mesh, lvl)} :
         /\ coord' = m.coord
         /\ elem' = m.elem
         /\ emax' = m.emax
    /\ total' = total + lvl
    /\ Returns("refine", "ok")
    /\ UNCHANGED << A, perm, inv_perm, bound, branch, nreorder, A0 >>

\* assmblstiff(): the global A is bound to the new matrix before the element
\* loop, which fills it in place
Assmblstiff ==
  \E r \in {AssembleStiffness(Mesh)} :
    /\ A' = r.A
    /\ A0' = r.A
    /\ bound' = bound \cup {"A"}
    /\ Returns("assmblstiff", IF r.raised THEN "ZeroDivisionError" ELSE "ok")
    /\ branch' = "none"
    /\ nreorder' = 0
    /\ UNCHANGED << coord, elem, emax, perm, inv_perm, total >>

\* reorder_matrix(): NameError without A, TypeError from
\* reverse_cuthill_mckee on a matrix that is not in CSR format; in the
\* is_ordered branch nothing is assigned
ReorderMatrix ==
  /\ nreorder < MaxReorder
  /\ \/ /\ "A" \notin bound
        /\ Returns("reorder_matrix", "NameError")
        /\ UNCHANGED << A, perm, inv_perm, bound, branch, nreorder >>
     \/ /\ "A" \in bound
        /\ A.fmt # "csr"
        /\ Returns("reorder_matrix", "TypeError")
        /\ UNCHANGED << A, perm, inv_perm, bound, branch, nreorder >>
     \/ /\ "A" \in bound
        /\ A.fmt = "csr"
        /\ \E tie \in TieBreaks :
             \E perm0 \in {reverse_cuthill_mckee(A, tie)} :
               \E Ao \in {Permuted(A, perm0)} :
                 LET is_ordered == SameEntries(A, Ao)
                 IN  IF is_ordered
                     THEN /\ branch' = "skipped"
                          /\ UNCHANGED << A, perm, inv_perm, bound >>
                     ELSE /\ branch' = "stored"
                          /\ perm' = perm0
                          /\ inv_perm' = Argsort(perm0)
                          /\ A' = Ao
                          /\ bound' = bound \cup {"perm", "inv_perm"}
        /\ nreorder' = nreorder + 1
        /\ Returns("reorder_matrix", "ok")
  /\ UNCHANGED << coord, elem, emax, total, A0 >>

\* rhs(f()) for the constant field f = c * ones: the vector is built before
\* "return b[perm]" reads perm
Rhs ==
  \E c \in FieldValues :
    /\ call' = "rhs"
    /\ field' = c
    /\ IF "perm" \notin bound
       THEN outcome' = "NameError" /\ ret' = << >>
       ELSE \E vec \in {LoadVector(Mesh, c)} :
              IF ~IndexInRange(vec, perm)
              THEN outcome' = "IndexError" /\ ret' = << >>
              ELSE outcome' = "ok" /\ ret' = Take(vec, perm)
    /\ UNCHANGED << coord, elem, emax, A, perm, inv_perm, bound, branch,
                    nreorder, total, A0 >>

\* solve(b) on the vector b the preceding call of rhs returned:
\* spsolve(A, b)[inv_perm]; spsolve raises ValueError when the shapes of A
\* and b do not fit
Solve ==
  /\ call = "rhs"
  /\ outcome = "ok"
  /\ call' = "solve"
  /\ IF "A" \notin bound \/ "inv_perm" \notin bound
     THEN outcome' = "NameError" /\ ret' = << >>
     ELSE IF Len(ret) # A.n
     THEN outcome' = "ValueError" /\ ret' = << >>
     ELSE \E x \in {spsolve(A, ret)} :
            IF ~IndexInRange(x, inv_perm)
            THEN outcome' = "IndexError" /\ ret' = << >>
            ELSE outcome' = "ok" /\ ret' = Take(x, inv_perm)
  /\ UNCHANGED << coord, elem, emax, A, perm, inv_perm, bound, field, branch,
                  nreorder, total, A0 >>

Next == Initial \/ Refine \/ Assmblstiff \/ ReorderMatrix \/ Rhs \/ Solve

Spec == Init /\ [][Next]_vars
\* ------------------------------------------- a mesh supplied by the caller
\* the element e with its node k replaced by the next of its nodes: two
\* corners coincide and the area is zero
Degenerate(e, k) == [e EXCEPT ![k] = e[(k % 3) + 1]]

\* the caller overwrites one element of the initial mesh, elem[ie] = [...],
\* with a degenerate one
SetElem ==
  \E ie \in 0 .. Len(InitialElem) - 1 :
    \E k \in 1 .. 3 :
      /\ elem = InitialElem
      /\ emax = InitialEmax
      /\ elem' = [elem EXCEPT ![ie + 1] = Degenerate(@, k)]
      /\ Returns("setitem", "ok")
      /\ UNCHANGED << coord, emax, A, perm, inv_perm, bound, branch, nreorder,
                      total, A0 >>

NextInput == Initial \/ SetElem \/ Assmblstiff \/ ReorderMatrix

\* the assembly and the reordering on the initial mesh and on the meshes the
\* caller makes of it
SpecInput == Init /\ [][NextInput]_vars

\* ---------------------------------------------------------- properties
InitialMesh == [coord |-> InitialCoord, elem |-> InitialElem, emax |-> InitialEmax]

\* the indices 0 .. n-1 in order
Identity(n) == [i \in 1 .. n |-> i - 1]

Symmetric(val) == \A i, j \in 1 .. Len(val) : val[i][j] = val[j][i]

\* row i and column i of val are zero except for a diagonal entry of 1
UnitRowAndColumn(val, i) ==
  \A j \in 1 .. Len(val) :
    /\ val[i][j] = (IF i = j THEN RInt(1) ELSE RInt(0))
    /\ val[j][i] = (IF i = j THEN RInt(1) ELSE RInt(0))

\* the state after a call of assmblstiff that returned
Assembled == call = "assmblstiff" /\ outcome = "ok"

\* the state after a call of reorder_matrix that took the branch br
Reordered(br) == call = "reorder_matrix" /\ outcome = "ok" /\ branch = br

NoDuplicateNodes ==
  /\ \A i, j \in 1 .. Len(coord) : i # j => coord[i] # coord[j]
  /\ \A ie \in 1 .. Len(elem) : \A k \in 1 .. 3 : elem[ie][k] \in 0 .. Len(coord) - 1

\* 8 elements with 3 midpoints each give 16 new nodes, not 24
SharedMidpointsReached ==
  /\ call = "refine"
  /\ total = 1
  /\ Len(coord) = 25
  /\ Len(elem) = 40

\* C3: when reorder_matrix skips the reordering, perm and inv_perm are
\* defined and are the identity on 0 .. N-1
SkipLeavesIdentity ==
  Reordered("skipped") =>
    /\ {"perm", "inv_perm"} \subseteq bound
    /\ perm = Identity(A.n)
    /\ inv_perm = Identity(A.n)

\* the pipeline initial(); assmblstiff(); reorder_matrix() on the mesh
\* without refinement, followed by rhs or solve for the field f = -1
ZeroRefinementRun ==
  /\ emax = InitialEmax
  /\ "A" \in bound
  /\ A.fmt = "csr"
  /\ A.n = Len(InitialCoord)
  /\ nreorder >= 1
  /\ field = -1

\* C4: on the mesh without refinement solve(rhs(f())) with f = -1 returns a
\* solution that is 0 at every boundary node and positive at the centre
\* node 4
ZeroRefinementSolution ==
  /\ (ZeroRefinementRun /\ call = "rhs") => outcome = "ok"
  /\ (ZeroRefinementRun /\ call = "solve") =>
       /\ outcome = "ok"
       /\ \A i \in 0 .. Len(InitialCoord) - 1 : i # 4 => At(ret, i) = RInt(0)
       /\ RPos(At(ret, 4))

\* C5: after assmblstiff() the row and the column of every node with a
\* coordinate 0 or 1 are zero except for a diagonal 1, and the vector rhs
\* builds, before it is permuted, is 0 at every such node
BoundaryConditions ==
  /\ Assembled =>
       \A i \in 1 .. Len(coord) : OnBoundary(coord[i]) => UnitRowAndColumn(A.val, i)
  /\ call = "rhs" =>
       \A i \in 1 .. Len(coord) :
         OnBoundary(coord[i]) => LoadVector(Mesh, field)[i] = RInt(0)

\* rhs has returned for a matrix assembled on the refined mesh: a boundary
\* node and the interior node 4
BoundaryConditionsReached ==
  /\ call = "rhs"
  /\ outcome = "ok"
  /\ total = 1
  /\ nreorder = 0
  /\ A.n = Len(coord)
  /\ UnitRowAndColumn(A.val, 1)
  /\ \E j \in 1 .. A.n : j # 5 /\ ~RIsZero(A.val[5][j])
  /\ ~RIsZero(LoadVector(Mesh, field)[5])

\* C6: the matrix of assmblstiff is symmetric, after the element loop and
\* after the boundary correction
SymmetricStiffness ==
  Assembled => Symmetric(A.val) /\ Symmetric(Accumulated(Mesh).val)

SymmetricStiffnessReached ==
  /\ Assembled
  /\ total = 2
  /\ A.n = 81
  /\ \E i, j \in 1 .. A.n : i # j /\ ~RIsZero(A.val[i][j])

\* C7: after initial(); refine(a) a call refine(b) leaves the mesh that
\* initial(); refine(a + b) leaves, for all a, b >= 1; the mesh of every
\* state is the one a single call for the total leaves
RefineComposes ==
  call = "refine" =>
    /\ Mesh = RefineMesh(InitialMesh, total)
    /\ \A b \in 1 .. MaxLevel - total :
         total >= 1 => RefineMesh(Mesh, b) = RefineMesh(InitialMesh, total + b)

RefineComposesReached ==
  /\ call = "refine"
  /\ total = 1
  /\ Len(RefineMesh(Mesh, 1).elem) = 168
  /\ RefineMesh(Mesh, 1) = RefineMesh(InitialMesh, 2)

\* C8: the perm reorder_matrix stores is a rearrangement of 0 .. N-1 for
\* the dimension N of the matrix and inv_perm is its inverse, so that taking
\* a vector by perm and then by inv_perm gives the vector back
StoredPermutation ==
  Reordered("stored") =>
    /\ Len(perm) = A.n
    /\ {perm[i] : i \in 1 .. Len(perm)} = 0 .. A.n - 1
    /\ Len(inv_perm) = A.n
    /\ \A i \in 0 .. A.n - 1 : At(inv_perm, At(perm, i)) = i
    /\ Take(Take(Identity(A.n), perm), inv_perm) = Identity(A.n)

StoredPermutationReached ==
  /\ Reordered("stored")
  /\ A.n = 25
  /\ perm # Identity(25)
  /\ perm # inv_perm

\* C9: every element of the initial mesh and of every level of a refined
\* mesh has a positive area(ie)
PositiveAreas == \A ie \in 0 .. Len(elem) - 1 : RPos(area(Mesh, ie))

\* the last element of level 2 is a central child
PositiveAreasReached ==
  /\ call = "refine"
  /\ total = 2
  /\ Len(elem) = 168
  /\ At(elem, 167)[3] = At(elem, 164)[2]
  /\ area(Mesh, 167) = Rat(1, 128)

\* C10: a call of assmblstiff that raises on a degenerate element leaves the
\* global A that an earlier call assembled as it was before the call
FailedAssemblyCommitsNothing ==
  [][("A" \in bound /\ call' = "assmblstiff" /\ outcome' = "ZeroDivisionError") =>
       A' = A]_vars

\* the stored matrix is the matrix of the most recent assmblstiff with rows
\* and columns taken by the stored perm: A[i,j] = A0[perm[i], perm[j]]
ConsistentlyPermuted ==
  /\ "perm" \in bound
  /\ Len(perm) = A0.n
  /\ IndexInRange(A0.val, perm)
  /\ A.val = Permuted(A0, perm).val

\* C11: whenever rhs or solve runs after assmblstiff and one or more calls
\* of reorder_matrix, the stored matrix is the assembled one permuted by the
\* stored perm, the perm rhs applies: also when reorder_matrix ran twice on
\* the matrix, skipped the reordering, or perm is left from an earlier mesh
PermutationAppliedConsistently ==
  (call \in {"rhs", "solve"} /\ "A" \in bound /\ nreorder >= 1) =>
    ConsistentlyPermuted
====
